---- MODULE Spec2Model ----
(***************************************************************************)
(* Model of cloudemu/validate_apis.py: the readiness prober                *)
(* (wait_for_port), the HTTP abstraction (request), the two family         *)
(* scenarios (test_azure, test_gcp) and the top-level script (__main__).   *)
(*                                                                         *)
(* Python values are modelled as follows.                                  *)
(*   str / bytes : a tagged sequence, <<"str", code points>> and raw byte  *)
(*                 sequences; None is <<"None">>.                          *)
(*   dict        : a TLA+ record (function on strings); the empty dict is  *)
(*                 the function with the empty domain, <<>>.               *)
(*   f-strings   : a URL is the sequence of its path segments, a literal   *)
(*                 segment is <<text>>, an interpolated name <<prefix, ts>>.*)
(***************************************************************************)
EXTENDS Integers, Sequences, FiniteSets, TLC

(* ----------------------------- bounds ---------------------------------- *)
\* largest retry budget drawn for wait_for_port
MaxRetries == 2
\* largest value int(time.time()) returns in a run (seconds since the start)
MaxClock == 1

(* ------------------------ program constants ---------------------------- *)
AZURE_PORT == 4566
GCP_PORT == 4567
AZURE_HOST == <<"http://127.0.0.1", AZURE_PORT>>
GCP_HOST == <<"http://127.0.0.1", GCP_PORT>>
Ports == {AZURE_PORT, GCP_PORT}
Families == {"test_azure", "test_gcp"}
None == <<"None">>
Str(cps) == <<"str", cps>>
\* the code points of the two stored texts, and of a wrong-case variant
HelloAzure == <<104, 101, 108, 108, 111, 95, 97, 122, 117, 114, 101>>
HelloGcp == <<104, 101, 108, 108, 111, 95, 103, 99, 112>>
UpperAzure == <<72, 69, 76, 76, 79, 95, 65, 90, 85, 82, 69>>

(* ------------------- what the two targets can do ----------------------- *)
\* status codes a target may answer with
Statuses == {200, 201, 404, 500}
\* raw response bodies (bytes) a target may answer with; <<195, 169>> is a
\* valid two-byte sequence, <<255>> is not valid UTF-8
RawBodies == {HelloAzure, HelloGcp, UpperAzure, <<195, 169>>, <<255>>}
\* the connection is refused (urlopen raises URLError at once)
Refused == [kind |-> "refused", status |-> -1, body |-> <<>>]
\* the target accepts the connection and never answers
Hang == [kind |-> "hang", status |-> -1, body |-> <<>>]
Response(st, b) == [kind |-> "response", status |-> st, body |-> b]
\* bodies drawn with the statuses other than 200: the text the read-back step
\* expects, and bytes that do not decode
OtherBodies == {HelloAzure, <<255>>}
\* behaviours of a target towards one scenario request
Wire ==
  {Refused, Hang}
    \cup {Response(200, b) : b \in RawBodies}
    \cup {Response(st, b) : st \in Statuses \ {200}, b \in OtherBodies}
\* behaviours of a target towards one health request (the body is never read)
ProbeWire == {Refused, Hang} \cup {Response(st, <<>>) : st \in Statuses}

(* --------------------------- bytes.decode ------------------------------ *)
IsCont(b) == b >= 128 /\ b < 192
DecodeFail == [ok |-> FALSE, text |-> <<>>]
RECURSIVE Utf8Decode(_)
Utf8Decode(b) ==
  IF b = <<>> THEN [ok |-> TRUE, text |-> <<>>]
  ELSE
    LET n == IF Head(b) < 128 THEN 1
             ELSE IF Head(b) >= 194 /\ Head(b) < 224 THEN 2
             ELSE IF Head(b) >= 224 /\ Head(b) < 240 THEN 3
             ELSE IF Head(b) >= 240 /\ Head(b) < 245 THEN 4
             ELSE 0
    IN IF n = 0 \/ Len(b) < n \/ (\E k \in 2..n : ~IsCont(b[k])) THEN DecodeFail
       ELSE
         LET cp == CASE n = 1 -> b[1]
                     [] n = 2 -> (b[1] - 192) * 64 + (b[2] - 128)
                     [] n = 3 -> (b[1] - 224) * 4096 + (b[2] - 128) * 64 + (b[3] - 128)
                     [] n = 4 -> (b[1] - 240) * 262144 + (b[2] - 128) * 4096
                                 + (b[3] - 128) * 64 + (b[4] - 128)
             bad == \/ (n = 3 /\ (cp < 2048 \/ (cp >= 55296 /\ cp < 57344)))
                    \/ (n = 4 /\ (cp < 65536 \/ cp > 1114111))
             rest == Utf8Decode(SubSeq(b, n + 1, Len(b)))
         IN IF bad \/ ~rest.ok THEN DecodeFail
            ELSE [ok |-> TRUE, text |-> <<cp>> \o rest.text]

(* ------------------------------ request -------------------------------- *)
\* Python truthiness of the data argument: None and {} are both false
Truthy(data) == data # None /\ DOMAIN data[2] # {}
Dict(d) == <<"dict", d>>
JsonDumps(d) == <<"json-utf8", d>>
\* the urllib.request.Request built by request()
BuildRequest(method, url, data) ==
  [method |-> method, url |-> url,
   headers |-> IF Truthy(data) THEN {<<"Content-Type", "application/json">>} ELSE {},
   data |-> IF Truthy(data) THEN JsonDumps(data[2]) ELSE None]
\* urlopen signals every status outside 2xx as HTTPError
RaisesHTTPError(status) == ~(status >= 200 /\ status < 300)
Return(d) == [kind |-> "return", value |-> d]
Raise(e) == [kind |-> "raise", value |-> [exc |-> e]]
\* what request() gives back once the transport has answered w (w is not Hang)
Respond(w) ==
  IF w.kind = "response" /\ ~RaisesHTTPError(w.status)
  THEN LET d == Utf8Decode(w.body)
       IN IF d.ok
          THEN Return([status |-> w.status, body |-> Str(d.text), headers |-> "headers"])
          ELSE Return([error |-> "UnicodeDecodeError", status |-> 0])
  ELSE IF w.kind = "response"
  THEN LET d == Utf8Decode(w.body)
       IN IF d.ok
          THEN Return([status |-> w.status, body |-> Str(d.text), error |-> "True"])
          ELSE Raise("UnicodeDecodeError")
  ELSE Return([error |-> "URLError", status |-> 0])
\* dict.get(key): None when the key is absent
DictGet(d, key) == IF key \in DOMAIN d THEN d[key] ELSE None

(* --------------------------- wait_for_port ----------------------------- *)
HealthUrl(port) == <<<<"http://127.0.0.1", port>>, <<"health">>>>
\* variant: the loop runs once more than the budget (range(retries + 1))
RangeHasNextInclusive(k, n) == k <= n
\* for i in range(retries)
RangeHasNext(k, n) == k < n
\* urlopen(url, timeout=1) raised: refused, timed out, or HTTPError
ProbeRaises(w) == w.kind # "response" \/ RaisesHTTPError(w.status)
\* variant: the status is compared with the string "200", which no integer
\* status equals
ProbeReadyStringCompare(w) == w.kind = "response" /\ w.status = -200
ProbeReady(w) == w.kind = "response" /\ w.status = 200

(* ----------------------------- scenarios ------------------------------- *)
Lit(s) == <<s>>
Name(prefix, t) == <<prefix, t>>
Step(desc, method, url, data, expect) ==
  [desc |-> desc, method |-> method, url |-> url, data |-> data, expect |-> expect]

\* test_azure: the names derived from ts, then its ten steps
AzAcc(t) == Name("testacc", t)
AzCont(t) == Name("testcont", t)
AzBlob(t) == Name("testblob", t)
AzDb(t) == Name("testdb", t)
AzColl(t) == Name("testcoll", t)
AzRg(t) == Name("testrg", t)
AzVm(t) == Name("testvm", t)
AzTopic(t) == Name("testtopic", t)
AzCreateContainer(t) ==
  Step("Creating container", "PUT", <<AZURE_HOST, Lit("blob"), AzAcc(t), AzCont(t)>>,
       Dict([public_access |-> "container"]), None)
AzPutBlob(t) ==
  Step("Putting blob", "PUT", <<AZURE_HOST, Lit("blob"), AzAcc(t), AzCont(t), AzBlob(t)>>,
       Dict([content |-> "hello_azure", content_type |-> "text/plain"]), None)
\* variant: the blob name is derived again, from a later reading of the clock,
\* before the read-back
AzGetBlobRederived(t) ==
  Step("Getting blob", "GET",
       <<AZURE_HOST, Lit("blob"), AzAcc(t), AzCont(t), Name("testblob", t + 1)>>,
       None, Str(HelloAzure))
AzGetBlob(t) ==
  Step("Getting blob", "GET", <<AZURE_HOST, Lit("blob"), AzAcc(t), AzCont(t), AzBlob(t)>>,
       None, Str(HelloAzure))
AzCreateDb(t) ==
  Step("Creating Cosmos DB", "PUT", <<AZURE_HOST, Lit("cosmos"), AzAcc(t), AzDb(t)>>,
       Dict([throughput |-> 400]), None)
AzCreateCollection(t) ==
  Step("Creating Collection", "PUT",
       <<AZURE_HOST, Lit("cosmos"), AzAcc(t), AzDb(t), AzColl(t)>>,
       Dict([partition_key_path |-> "/pk"]), None)
AzCreateItem(t) ==
  Step("Creating Item", "POST",
       <<AZURE_HOST, Lit("cosmos"), AzAcc(t), AzDb(t), AzColl(t), Lit("items")>>,
       Dict([item |-> [id |-> "item1", pk |-> "pkval", value |-> "data"],
             partition_key |-> "pkval"]), None)
AzGetItem(t) ==
  Step("Getting Item", "GET",
       <<AZURE_HOST, Lit("cosmos"), AzAcc(t), AzDb(t), AzColl(t), Lit("items"),
         Lit("item1"), Lit("pkval")>>, None, None)
AzCreateVm(t) ==
  Step("Creating VM", "PUT", <<AZURE_HOST, Lit("compute"), AzRg(t), Lit("vms"), AzVm(t)>>,
       Dict([location |-> "westus", vm_size |-> "Standard_B1s",
             os_type |-> "Linux", admin_username |-> "azureuser"]), None)
AzGetVm(t) ==
  Step("Getting VM", "GET", <<AZURE_HOST, Lit("compute"), AzRg(t), Lit("vms"), AzVm(t)>>,
       None, None)
AzCreateTopic(t) ==
  Step("Creating EventGrid Topic", "PUT",
       <<AZURE_HOST, Lit("eventgrid"), AzRg(t), Lit("topics"), AzTopic(t)>>,
       Dict([location |-> "westus"]), None)
\* a variant of test_azure that reads the blob back before storing it
AzureStepsGetBeforePut(t) ==
  << AzCreateContainer(t), AzGetBlob(t), AzPutBlob(t), AzCreateDb(t),
     AzCreateCollection(t), AzCreateItem(t), AzGetItem(t), AzCreateVm(t), AzGetVm(t),
     AzCreateTopic(t) >>
\* a variant of test_azure that issues the blob upload a second time
AzureStepsPutTwice(t) ==
  << AzCreateContainer(t), AzPutBlob(t), AzPutBlob(t), AzGetBlob(t), AzCreateDb(t),
     AzCreateCollection(t), AzCreateItem(t), AzGetItem(t), AzCreateVm(t), AzGetVm(t),
     AzCreateTopic(t) >>
AzureSteps(t) ==
  << AzCreateContainer(t), AzPutBlob(t), AzGetBlob(t), AzCreateDb(t),
     AzCreateCollection(t), AzCreateItem(t), AzGetItem(t), AzCreateVm(t), AzGetVm(t),
     AzCreateTopic(t) >>

\* test_gcp: the names derived from ts, then its ten steps
GcpBucket(t) == Name("testbucket", t)
GcpObj(t) == Name("testobj", t)
GcpProj(t) == Name("testproj", t)
GcpDb(t) == Name("testdb-fs", t)
GcpColl == Lit("users")
GcpDoc == Lit("user1")
GcpZone == Lit("us-central1-a")
GcpInst(t) == Name("testinst", t)
GcpTopic(t) == Name("testtopic", t)
GcpSub(t) == Name("testsub", t)
GcpCreateBucket(t) ==
  Step("Creating Bucket", "PUT", <<GCP_HOST, Lit("storage"), GcpBucket(t)>>,
       Dict([location |-> "us-east1"]), None)
GcpPutObject(t) ==
  Step("Putting Object", "PUT",
       <<GCP_HOST, Lit("storage"), GcpBucket(t), Lit("o"), GcpObj(t)>>,
       Dict([content |-> "hello_gcp", content_type |-> "text/plain"]), None)
GcpGetObject(t) ==
  Step("Getting Object", "GET",
       <<GCP_HOST, Lit("storage"), GcpBucket(t), Lit("o"), GcpObj(t)>>,
       None, Str(HelloGcp))
GcpCreateDb(t) ==
  Step("Creating Firestore DB", "PUT",
       <<GCP_HOST, Lit("firestore"), GcpProj(t), Lit("databases"), GcpDb(t)>>,
       Dict([location_id |-> "us", database_type |-> "native"]), None)
GcpCreateDocument(t) ==
  Step("Creating Document", "PUT",
       <<GCP_HOST, Lit("firestore"), GcpProj(t), Lit("databases"), GcpDb(t),
         Lit("documents"), GcpColl, GcpDoc>>,
       Dict([fields |-> [name |-> "Alice", age |-> 30]]), None)
GcpGetDocument(t) ==
  Step("Getting Document", "GET",
       <<GCP_HOST, Lit("firestore"), GcpProj(t), Lit("databases"), GcpDb(t),
         Lit("documents"), GcpColl, GcpDoc>>, None, None)
GcpCreateInstance(t) ==
  Step("Creating Instance", "PUT",
       <<GCP_HOST, Lit("compute"), GcpProj(t), Lit("zones"), GcpZone,
         Lit("instances"), GcpInst(t)>>,
       Dict([machine_type |-> "e2-medium", image |-> "debian-11",
             network |-> "default"]), None)
GcpGetInstance(t) ==
  Step("Getting Instance", "GET",
       <<GCP_HOST, Lit("compute"), GcpProj(t), Lit("zones"), GcpZone,
         Lit("instances"), GcpInst(t)>>, None, None)
GcpCreateTopic(t) ==
  Step("Creating PubSub Topic", "PUT",
       <<GCP_HOST, Lit("pubsub"), GcpProj(t), Lit("topics"), GcpTopic(t)>>,
       Dict(<<>>), None)
GcpCreateSubscription(t) ==
  Step("Creating PubSub Subscription", "PUT",
       <<GCP_HOST, Lit("pubsub"), GcpProj(t), Lit("subscriptions"), GcpSub(t)>>,
       Dict([topic |-> GcpTopic(t), push_endpoint |-> "http://localhost/push"]), None)
\* a variant of test_gcp that creates the subscription before its topic
GcpStepsSubscriptionFirst(t) ==
  << GcpCreateBucket(t), GcpPutObject(t), GcpGetObject(t), GcpCreateDb(t),
     GcpCreateDocument(t), GcpGetDocument(t), GcpCreateInstance(t), GcpGetInstance(t),
     GcpCreateSubscription(t), GcpCreateTopic(t) >>
GcpSteps(t) ==
  << GcpCreateBucket(t), GcpPutObject(t), GcpGetObject(t), GcpCreateDb(t),
     GcpCreateDocument(t), GcpGetDocument(t), GcpCreateInstance(t), GcpGetInstance(t),
     GcpCreateTopic(t), GcpCreateSubscription(t) >>
Steps(fam, t) == IF fam = "test_azure" THEN AzureSteps(t) ELSE GcpSteps(t)
\* variant: only error statuses (4xx/5xx) fail a step
AssertionFailsOnErrorStatusOnly(s, r) ==
  r.status >= 400 \/ (s.expect # None /\ DictGet(r, "body") # s.expect)
\* variant: the body comparison of the read-back step is left out
AssertionFailsStatusOnly(s, r) == r.status # 200
\* variant: any 2xx status passes a step
AssertionFailsNon2xx(s, r) ==
  ~(r.status >= 200 /\ r.status < 300) \/ (s.expect # None /\ DictGet(r, "body") # s.expect)
\* the guard of "return False" after a step: res['status'] != 200, and on the
\* read-back step also res.get('body') != the stored text
AssertionFails(s, r) ==
  r.status # 200 \/ (s.expect # None /\ DictGet(r, "body") # s.expect)

(* ------------------------------ __main__ ------------------------------- *)
\* variant: the `not` is missing
AbortsRunInverted(readyResult) == readyResult
\* if not wait_for_port(port): sys.exit(1)
AbortsRun(readyResult) == ~readyResult
\* variant: both scenarios are always run (test_azure() & test_gcp())
RunsGcpAlways(azureResult) == TRUE
\* test_azure() and test_gcp(): the right operand runs only if the left is true
RunsGcp(azureResult) == azureResult
\* variant: the two exit codes are swapped
ExitCodeSwapped(allPassed) == IF allPassed THEN 1 ELSE 0
\* sys.exit(0) in the then-branch, sys.exit(1) in the else-branch
ExitCode(allPassed) == IF allPassed THEN 0 ELSE 1
\* an uncaught exception ends the interpreter with status 1
UncaughtExit == 1

(* ------------------------------- state --------------------------------- *)
VARIABLES pc, retries, i, attempts, sleeps, firstOk, ready, step, ts,
          sent, wire, res, result, stdout, exitCode

vars == <<pc, retries, i, attempts, sleeps, firstOk, ready, step, ts,
          sent, wire, res, result, stdout, exitCode>>

Init ==
  /\ pc = "wait_azure"
  /\ retries \in 1..MaxRetries
  /\ i = 0
  /\ attempts = [p \in Ports |-> 0]
  /\ sleeps = [p \in Ports |-> 0]
  /\ firstOk = [p \in Ports |-> 0]
  /\ ready = [p \in Ports |-> "none"]
  /\ step = 0
  /\ ts = [f \in Families |-> -1]
  /\ sent = <<>>
  /\ wire = Refused
  /\ res = <<>>
  /\ result = [f \in Families |-> "none"]
  /\ stdout = <<>>
  /\ exitCode = -1

\* variant: the two ports are probed in the other order
PortOfSwapped(p) == IF p = "wait_azure" THEN GCP_PORT ELSE AZURE_PORT
PortOf(p) == IF p = "wait_azure" THEN AZURE_PORT ELSE GCP_PORT

\* one iteration of the loop of wait_for_port(port), and the return to
\* __main__ when the iteration returns True
WaitForPortAttempt ==
  /\ pc \in {"wait_azure", "wait_gcp"}
  /\ RangeHasNext(i, retries)
  /\ \E w \in ProbeWire :
       LET port == PortOf(pc) IN
       /\ attempts' = [attempts EXCEPT ![port] = @ + 1]
       /\ firstOk' = IF w.kind = "response" /\ w.status = 200 /\ firstOk[port] = 0
                     THEN [firstOk EXCEPT ![port] = attempts[port] + 1]
                     ELSE firstOk
       /\ IF ~ProbeRaises(w) /\ ProbeReady(w)
          THEN /\ stdout' = Append(stdout, <<"Port is ready.", port>>)
               /\ ready' = [ready EXCEPT ![port] = "True"]
               /\ i' = 0
               /\ pc' = IF AbortsRun(TRUE) THEN "done"
                        ELSE IF pc = "wait_azure" THEN "wait_gcp" ELSE "test_azure"
               /\ exitCode' = IF AbortsRun(TRUE) THEN 1 ELSE exitCode
               /\ UNCHANGED sleeps
          ELSE IF ProbeRaises(w)
          THEN /\ stdout' = Append(stdout, <<"Waiting for port...", port>>)
               /\ sleeps' = [sleeps EXCEPT ![port] = @ + 1]
               /\ i' = i + 1
               /\ UNCHANGED <<ready, pc, exitCode>>
          ELSE /\ i' = i + 1
               /\ UNCHANGED <<stdout, sleeps, ready, pc, exitCode>>
  /\ UNCHANGED <<retries, step, ts, sent, wire, res, result>>

\* the loop of wait_for_port(port) is exhausted: return False, and __main__
\* prints its message and exits
WaitForPortExhausted ==
  /\ pc \in {"wait_azure", "wait_gcp"}
  /\ ~RangeHasNext(i, retries)
  /\ LET port == PortOf(pc) IN
       /\ ready' = [ready EXCEPT ![port] = "False"]
       /\ IF AbortsRun(FALSE)
          THEN /\ stdout' = Append(stdout, <<"API not ready.", port>>)
               /\ pc' = "done"
               /\ exitCode' = 1
               /\ i' = i
          ELSE /\ stdout' = stdout
               /\ pc' = IF pc = "wait_azure" THEN "wait_gcp" ELSE "test_azure"
               /\ exitCode' = exitCode
               /\ i' = 0
  /\ UNCHANGED <<retries, attempts, sleeps, firstOk, step, ts, sent, wire,
                 res, result>>

\* the values int(time.time()) can return now: the clock does not run
\* backwards, so not less than a value read earlier in the run
TimeNow == {t \in 0..MaxClock : \A f \in Families : ts[f] <= t}

\* entry of test_azure / test_gcp: the header line and ts = int(time.time())
ScenarioStart ==
  /\ pc \in Families
  /\ step = 0
  /\ stdout' = Append(stdout, <<"=== Testing Data API ===", pc>>)
  /\ \E t \in TimeNow : ts' = [ts EXCEPT ![pc] = t]
  /\ step' = 1
  /\ UNCHANGED <<pc, retries, i, attempts, sleeps, firstOk, ready, sent,
                 wire, res, result, exitCode>>

\* the line "Status: ..., Body: ..." of a step; the body text is kept only on
\* the steps whose body the scenario goes on to compare
StatusLine(fam, s, r) ==
  <<"status", fam, s.desc, r.status,
    IF s.expect # None THEN DictGet(r, "body") ELSE <<"...">> >>

\* __main__ after a scenario returned retval (lines 213-218)
MainAfter(fam, retval, out) ==
  IF fam = "test_azure" /\ RunsGcp(retval)
  THEN /\ pc' = "test_gcp"
       /\ step' = 0
       /\ stdout' = out
       /\ exitCode' = exitCode
  ELSE /\ pc' = "done"
       /\ step' = step
       /\ stdout' = Append(out, IF retval THEN <<"All tests passed!">>
                                ELSE <<"Some tests failed.">>)
       /\ exitCode' = ExitCode(retval)

\* one step of a scenario: the description line, request(), the status line
\* and the assertion; with the return to __main__ when the scenario returns
ScenarioStep ==
  /\ pc \in Families
  /\ step >= 1
  /\ LET fam == pc
         steps == Steps(fam, ts[fam])
         s == steps[step]
         line1 == Append(stdout, <<"desc", fam, s.desc>>)
     IN
     /\ sent' = Append(sent, BuildRequest(s.method, s.url, s.data))
     /\ \E w \in Wire :
          LET r == Respond(w) IN
          /\ wire' = w
          /\ IF w.kind = "hang"
             THEN /\ pc' = "blocked"
                  /\ stdout' = line1
                  /\ UNCHANGED <<step, res, result, exitCode>>
             ELSE IF r.kind = "raise"
             THEN /\ pc' = "done"
                  /\ stdout' = Append(line1, <<"Traceback", r.value.exc>>)
                  /\ exitCode' = UncaughtExit
                  /\ result' = [result EXCEPT ![fam] = "raised"]
                  /\ UNCHANGED <<step, res>>
             ELSE LET line2 == Append(line1, StatusLine(fam, s, r.value)) IN
                  /\ res' = r.value
                  /\ IF AssertionFails(s, r.value)
                     THEN /\ result' = [result EXCEPT ![fam] = "False"]
                          /\ MainAfter(fam, FALSE, line2)
                     ELSE IF step = Len(steps)
                     THEN /\ result' = [result EXCEPT ![fam] = "True"]
                          /\ MainAfter(fam, TRUE, line2)
                     ELSE /\ step' = step + 1
                          /\ stdout' = line2
                          /\ UNCHANGED <<pc, result, exitCode>>
  /\ UNCHANGED <<retries, i, attempts, sleeps, firstOk, ready, ts>>

Next ==
  \/ WaitForPortAttempt
  \/ WaitForPortExhausted
  \/ ScenarioStart
  \/ ScenarioStep

Spec == Init /\ [][Next]_vars

(* ------------------------- reading the state --------------------------- *)
HostOf(fam) == IF fam = "test_azure" THEN AZURE_HOST ELSE GCP_HOST
PortOfFamily(fam) == HostOf(fam)[2]
StoredText(fam) == IF fam = "test_azure" THEN Str(HelloAzure) ELSE Str(HelloGcp)
\* the scenario requests that went to one target, in the order they were issued
SentTo(host) == SelectSeq(sent, LAMBDA q : q.url[1] = host)
\* the "Status: ..." lines and the description lines one scenario printed
StatusLines(fam) == SelectSeq(stdout, LAMBDA l : Len(l) = 5 /\ l[1] = "status" /\ l[2] = fam)
DescLines(fam) == SelectSeq(stdout, LAMBDA l : Len(l) = 3 /\ l[1] = "desc" /\ l[2] = fam)
\* the fixed step order of the two scenarios, as the source lists them
AzureOrder ==
  << "Creating container", "Putting blob", "Getting blob", "Creating Cosmos DB",
     "Creating Collection", "Creating Item", "Getting Item", "Creating VM",
     "Getting VM", "Creating EventGrid Topic" >>
GcpOrder ==
  << "Creating Bucket", "Putting Object", "Getting Object", "Creating Firestore DB",
     "Creating Document", "Getting Document", "Creating Instance", "Getting Instance",
     "Creating PubSub Topic", "Creating PubSub Subscription" >>
Order(fam) == IF fam = "test_azure" THEN AzureOrder ELSE GcpOrder
NSteps(fam) == Len(Order(fam))
\* the storage read-back is the third step of either scenario
ReadBack == 3
\* the strict-200 policy, stated on an outcome of step k
StepPasses(fam, k, r) ==
  r.status = 200 /\ (k = ReadBack => DictGet(r, "body") = StoredText(fam))
\* the same policy read off the j-th of the status lines L of a scenario
LinePasses(fam, L, j) ==
  L[j][4] = 200 /\ (j = ReadBack => L[j][5] = StoredText(fam))
\* res holds the outcome of the last step of fam that returned
ResIsOf(fam) ==
  /\ StatusLines(fam) # <<>>
  /\ fam = "test_azure" => StatusLines("test_gcp") = <<>>
\* wait_for_port(p) has returned
ProbeOver(p) == ready[p] # "none"

(* ------------------------------- claims -------------------------------- *)
\* C1: for every retry budget >= 1, when the health endpoint never answers
\* 200, wait_for_port returns False after exactly `retries` health requests;
\* it never issues more than `retries` requests.
C1_ExhaustedAfterExactlyRetries ==
  \A p \in Ports :
    /\ attempts[p] <= retries
    /\ (ProbeOver(p) /\ firstOk[p] = 0) => (ready[p] = "False" /\ attempts[p] = retries)
C1_Witness ==
  /\ retries = MaxRetries
  /\ ready[GCP_PORT] = "False"
  /\ firstOk[GCP_PORT] = 0
  /\ attempts[GCP_PORT] = MaxRetries

\* C2: when the first 200 of the health endpoint comes on attempt k,
\* wait_for_port returns True having issued exactly k health requests (no
\* attempt follows the first 200).
C2_ReturnsTrueAtFirst200 ==
  \A p \in Ports :
    /\ firstOk[p] # 0 => (ready[p] = "True" /\ attempts[p] = firstOk[p])
    /\ ready[p] = "True" => firstOk[p] \in 1..retries
C2_Witness ==
  /\ firstOk[AZURE_PORT] = 2
  /\ ready[AZURE_PORT] = "True"
  /\ sleeps[AZURE_PORT] = 1

\* C3: when step i is the first step of a scenario whose assertion fails,
\* exactly the requests of steps 1..i were issued to that target, the steps
\* before i all passed, the scenario returned False and nothing runs after.
C3_FailFastWithinScenario ==
  \A fam \in Families :
    result[fam] = "False" =>
      LET k == Len(SentTo(HostOf(fam)))
          L == StatusLines(fam)
          D == DescLines(fam)
      IN /\ k \in 1..NSteps(fam)
         /\ Len(L) = k
         /\ Len(D) = k
         /\ \A j \in 1..k : D[j][3] = Order(fam)[j]
         /\ \A j \in 1..(k - 1) : LinePasses(fam, L, j)
         /\ ~StepPasses(fam, k, res)
         /\ pc = "done"
C3_Witness ==
  /\ result["test_gcp"] = "False"
  /\ Len(SentTo(GCP_HOST)) = 4
  /\ res.status = 404

\* C4: when all n steps of a scenario pass, it returns True and its
\* transcript holds exactly n step entries (description line and status
\* line), in the fixed order of the scenario.
C4_AllPassTranscriptInOrder ==
  \A fam \in Families :
    LET L == StatusLines(fam)
        D == DescLines(fam)
        n == Len(L)
    IN /\ (n = NSteps(fam) /\ \A j \in 1..n : LinePasses(fam, L, j)) => result[fam] = "True"
       /\ result[fam] = "True" =>
            /\ n = NSteps(fam)
            /\ Len(D) = n
            /\ \A j \in 1..n : /\ L[j][3] = Order(fam)[j]
                               /\ D[j][3] = Order(fam)[j]
                               /\ LinePasses(fam, L, j)
C4_Witness ==
  /\ result["test_azure"] = "True"
  /\ result["test_gcp"] = "True"

\* C5: when test_azure fails at any step, test_gcp is never invoked, no
\* scenario request goes to the cloud-B target, and the exit code is nonzero.
C5_CrossFamilyShortCircuit ==
  result["test_azure"] \in {"False", "raised"} =>
    /\ SentTo(GCP_HOST) = <<>>
    /\ ts["test_gcp"] = -1
    /\ result["test_gcp"] = "none"
    /\ pc = "done"
    /\ exitCode = 1
C5_Witness ==
  /\ result["test_azure"] = "False"
  /\ Len(SentTo(AZURE_HOST)) = ReadBack
  /\ exitCode = 1

\* C6: when either readiness probe returns False the run ends with a failure
\* exit code and no scenario is entered; a scenario request is issued only
\* after both targets have reported ready.
C6_NoScenarioUnlessBothReady ==
  /\ (\E p \in Ports : ready[p] = "False") =>
       /\ pc = "done"
       /\ exitCode = 1
       /\ sent = <<>>
       /\ \A fam \in Families : ts[fam] = -1 /\ result[fam] = "none"
  /\ (sent # <<>> \/ pc \in Families) => \A p \in Ports : ready[p] = "True"
C6_Witness ==
  /\ ready[AZURE_PORT] = "True"
  /\ ready[GCP_PORT] = "False"
  /\ pc = "done"

\* C7: the process exits with code 0 exactly when both targets became ready
\* and every step of both scenarios passed its assertion; every other exit
\* is with code 1.
AllPassed ==
  /\ \A p \in Ports : ready[p] = "True"
  /\ \A fam \in Families :
       LET L == StatusLines(fam)
       IN /\ Len(L) = NSteps(fam)
          /\ \A j \in 1..NSteps(fam) : LinePasses(fam, L, j)
C7_ExitCodeZeroIffAllPassed ==
  /\ pc = "done" => (exitCode \in {0, 1} /\ (exitCode = 0 <=> AllPassed))
  /\ pc # "done" => exitCode = -1
C7_Witness ==
  /\ pc = "done"
  /\ exitCode = 0
  /\ Len(sent) = NSteps("test_azure") + NSteps("test_gcp")

\* C8: in the storage read-back step, a response with status 200 whose body
\* is not exactly the stored text makes the scenario fail at that step: it
\* returns False and no later step is issued.
C8_ReadBackBodyMustMatch ==
  \A fam \in Families :
    LET L == StatusLines(fam)
    IN
    /\ ( /\ Len(L) >= ReadBack
         /\ L[ReadBack][4] = 200
         /\ L[ReadBack][5] # StoredText(fam) ) =>
           /\ result[fam] = "False"
           /\ Len(SentTo(HostOf(fam))) = ReadBack
           /\ pc = "done"
    /\ ( /\ Len(L) = ReadBack
         /\ Len(SentTo(HostOf(fam))) = ReadBack
         /\ ResIsOf(fam)
         /\ wire.kind = "response" /\ wire.status = 200
         /\ wire.body # StoredText(fam)[2] ) =>
           /\ result[fam] = "False"
           /\ pc = "done"
C8_Witness ==
  /\ result["test_azure"] = "False"
  /\ LET L == StatusLines("test_azure")
     IN Len(L) = ReadBack /\ L[ReadBack][4] = 200 /\ L[ReadBack][5] = Str(UpperAzure)

\* C9: a scenario step passes exactly when its outcome has status 200 (and,
\* on the read-back step, the exact stored body); every other outcome, status
\* 0, 4xx/5xx and other 2xx included, makes the scenario return False.
C9_Strict200Policy ==
  \A fam \in Families :
    ResIsOf(fam) =>
      LET L == StatusLines(fam)
          k == Len(L)
      IN /\ \A j \in 1..(k - 1) : LinePasses(fam, L, j)
         /\ StepPasses(fam, k, res) <=> result[fam] # "False"
         /\ result[fam] = "False" => (pc = "done" /\ exitCode = 1)
C9_Witness ==
  /\ ResIsOf("test_azure")
  /\ res.status = 201
  /\ result["test_azure"] = "False"

\* C10: request() returns status 0 exactly when no HTTP response was
\* obtained; whenever the server answered, the outcome carries the server's
\* status.
C10_StatusZeroIffNoResponse ==
  (sent # <<>> /\ Len(StatusLines("test_azure")) + Len(StatusLines("test_gcp")) = Len(sent)) =>
    /\ res.status = 0 <=> wire.kind # "response"
    /\ wire.kind = "response" => res.status = wire.status

\* C11: for every HTTP error response (4xx/5xx) request() returns normally
\* with the status and the error body; no exception escapes request() into
\* the scenario, whatever the error response contains.
C11_NoExceptionEscapesRequest ==
  /\ \A fam \in Families : result[fam] # "raised"
  /\ ( /\ sent # <<>>
       /\ pc # "blocked"
       /\ wire.kind = "response"
       /\ RaisesHTTPError(wire.status) ) =>
         /\ res # <<>>
         /\ res.status = wire.status

\* C12: after every failed probe attempt, a transport error or a non-200
\* status alike, wait_for_port sleeps before the next attempt: no two
\* consecutive health requests without a sleep in between.
C12_SleepBetweenAttempts ==
  \A p \in Ports : attempts[p] <= sleeps[p] + 1

\* C13: every HTTP call is bounded by a transport timeout, so a target that
\* accepts the connection and never answers cannot block the run.
C13_NoCallBlocksTheRun ==
  pc # "blocked"

\* C14: whenever a payload is supplied to request(), the empty object {}
\* included, the request carries the payload as its JSON body and a JSON
\* Content-Type header; it goes without body and header only when no payload
\* was supplied.
C14_PayloadAlwaysSerialized ==
  \A fam \in Families :
    LET S == SentTo(HostOf(fam))
        steps == Steps(fam, ts[fam])
    IN \A j \in 1..Len(S) :
         IF steps[j].data = None
         THEN S[j].headers = {} /\ S[j].data = None
         ELSE /\ S[j].headers = {<<"Content-Type", "application/json">>}
              /\ S[j].data = JsonDumps(steps[j].data[2])

\* C15: the scenario runner never retries: each step of a scenario is issued
\* at most once, a scenario sends at most n requests for its n steps, and
\* nothing is issued once a step has failed.
C15_NoStepIssuedTwice ==
  \A fam \in Families :
    LET S == SentTo(HostOf(fam))
    IN /\ Len(S) <= NSteps(fam)
       /\ \A j, k \in 1..Len(S) :
            (S[j].method = S[k].method /\ S[j].url = S[k].url) => j = k
       /\ result[fam] = "False" => (pc = "done" /\ Len(StatusLines(fam)) = Len(S))
C15_Witness ==
  /\ result["test_gcp"] = "False"
  /\ Len(SentTo(GCP_HOST)) = NSteps("test_gcp")
  /\ Len(SentTo(AZURE_HOST)) = NSteps("test_azure")

\* the (creating step, reading step) pairs of the two scenarios
AzureReadPairs == {<<2, 3>>, <<6, 7>>, <<8, 9>>}
GcpReadPairs == {<<2, 3>>, <<5, 6>>, <<7, 8>>}
ReadPairs(fam) == IF fam = "test_azure" THEN AzureReadPairs ELSE GcpReadPairs
\* C16: the names of a scenario are derived once, from the ts read at its
\* start: every request of the scenario carries that ts in each of its names,
\* and every GET targets the path of the PUT or POST that created the
\* resource (followed, for the Cosmos item, by literal segments only),
\* whatever the clock reads later in the run.
C16_NamesDerivedOnce ==
  \A fam \in Families :
    LET S == SentTo(HostOf(fam))
    IN /\ \A j \in 1..Len(S) : \A k \in 2..Len(S[j].url) :
            Len(S[j].url[k]) = 2 => S[j].url[k][2] = ts[fam]
       /\ \A pr \in ReadPairs(fam) :
            Len(S) >= pr[2] =>
              LET created == S[pr[1]].url
                  read == S[pr[2]].url
              IN /\ S[pr[1]].method \in {"PUT", "POST"}
                 /\ S[pr[2]].method = "GET"
                 /\ Len(read) >= Len(created)
                 /\ SubSeq(read, 1, Len(created)) = created
                 /\ \A k \in (Len(created) + 1)..Len(read) : Len(read[k]) = 1
C16_Witness ==
  /\ ts["test_azure"] = 0
  /\ ts["test_gcp"] = MaxClock
  /\ Len(SentTo(AZURE_HOST)) = NSteps("test_azure")
  /\ Len(SentTo(GCP_HOST)) >= 8

\* the "Waiting for port..." and "Port is ready." lines printed for one port
ProgressLines(p) ==
  SelectSeq(stdout, LAMBDA l : /\ Len(l) = 2
                               /\ l[1] \in {"Waiting for port...", "Port is ready."}
                               /\ l[2] = p)
AzureDeps ==
  { <<"Creating container", "Putting blob">>, <<"Creating container", "Getting blob">>,
    <<"Putting blob", "Getting blob">>,
    <<"Creating Cosmos DB", "Creating Collection">>, <<"Creating Cosmos DB", "Creating Item">>,
    <<"Creating Cosmos DB", "Getting Item">>, <<"Creating Collection", "Creating Item">>,
    <<"Creating Collection", "Getting Item">>, <<"Creating Item", "Getting Item">>,
    <<"Creating VM", "Getting VM">> }
GcpDeps ==
  { <<"Creating Bucket", "Putting Object">>, <<"Creating Bucket", "Getting Object">>,
    <<"Putting Object", "Getting Object">>,
    <<"Creating Firestore DB", "Creating Document">>,
    <<"Creating Firestore DB", "Getting Document">>,
    <<"Creating Document", "Getting Document">>,
    <<"Creating Instance", "Getting Instance">>,
    <<"Creating PubSub Topic", "Creating PubSub Subscription">> }
Deps(fam) == IF fam = "test_azure" THEN AzureDeps ELSE GcpDeps
\* C18: a request that reads or creates a child of a resource is issued only
\* after the request creating that resource has returned status 200 earlier
\* in the same scenario run.
C18_ChildAfterParentReturned200 ==
  \A fam \in Families :
    LET L == StatusLines(fam)
        D == DescLines(fam)
    IN /\ Len(D) = Len(SentTo(HostOf(fam)))
       /\ \A dep \in Deps(fam) : \A j \in 1..Len(D) :
            D[j][3] = dep[2] =>
              \E k \in 1..(j - 1) : k <= Len(L) /\ L[k][3] = dep[1] /\ L[k][4] = 200
C18_Witness ==
  /\ Len(DescLines("test_gcp")) = NSteps("test_gcp")
  /\ wire.kind = "refused"
  /\ result["test_gcp"] = "False"
  /\ Len(DescLines("test_azure")) = NSteps("test_azure")

\* C19: the two probes run one after the other, cloud A first: the cloud-B
\* target gets its first health request only after the cloud-A probe has
\* returned True, and no request of any kind when it returned False.
C19_CloudBProbedAfterCloudAReady ==
  /\ (attempts[GCP_PORT] > 0 \/ ready[GCP_PORT] # "none" \/ SentTo(GCP_HOST) # <<>>) =>
       (ready[AZURE_PORT] = "True" /\ attempts[AZURE_PORT] > 0)
  /\ ready[AZURE_PORT] = "False" =>
       /\ attempts[GCP_PORT] = 0
       /\ ProgressLines(GCP_PORT) = <<>>
       /\ SentTo(GCP_HOST) = <<>>
       /\ pc = "done"
C19_Witness ==
  /\ ready[AZURE_PORT] = "False"
  /\ attempts[AZURE_PORT] = MaxRetries
  /\ sleeps[AZURE_PORT] = 0
  /\ attempts[GCP_PORT] = 0

====
